---- MODULE Spec2Model ----
(***************************************************************************)
(* State-machine model of static/script-discovery-v2.js: the word-cloud    *)
(* pagination and placement loop, the three-step selection state machine   *)
(* and the discovery request.                                              *)
(*                                                                         *)
(* JavaScript runs one callback at a time.  A callback that contains the   *)
(* placement loop (displayWordcloudPage) is modelled as a sequence of      *)
(* steps guarded by pc = "render"; every event (click, timer, response,    *)
(* resize) is guarded by pc = "idle", so that nothing interleaves with a   *)
(* running callback.                                                       *)
(***************************************************************************)
EXTENDS Integers, Sequences, FiniteSets, TLC

\* ------------------------------------------------------------------ bounds

\* Largest number of next-page clicks followed after one renderWordcloud.
MaxNextClicks == 4

\* Largest number of setTimeout callbacks of selectMain pending at once.
MaxTimers == 2

\* Largest number of POST /api/discover requests outstanding at once.
MaxRequests == 2

\* Largest number of episodes in a discovery response.
MaxResults == 1

\* The sub-theme cards 1..MaxSubthemeIdx are the ones clicked.
MaxSubthemeIdx == 1

\* ------------------------------------------------- JavaScript value model

\* The value of (n % 0): not a number.  Indices are non-negative in the
\* program, so -1 is free to stand for NaN.
NaN == -1

\* null of appState.selectedMain / selectedMainType / selectedSub.
NULL == "null"

Min(a, b) == IF a < b THEN a ELSE b

Max(a, b) == IF a > b THEN a ELSE b

\* a + b on JS numbers.
JsAdd(a, b) == IF a = NaN \/ b = NaN THEN NaN ELSE a + b

\* a * b on JS numbers.
JsMul(a, b) == IF a = NaN \/ b = NaN THEN NaN ELSE a * b

\* a % b on JS numbers (operands are never negative here): NaN when b is 0.
JsMod(a, b) == IF a = NaN \/ b = NaN \/ b = 0 THEN NaN ELSE a % b

\* Faulty variant: Math.floor in place of Math.ceil.
JsCeilDiv_Floor(len, size) == len \div size

\* Math.ceil(len / size) for size > 0.
JsCeilDiv(len, size) == (len + size - 1) \div size

\* ToIntegerOrInfinity as Array.prototype.slice applies it: NaN becomes 0.
JsToInteger(v) == IF v = NaN THEN 0 ELSE v

\* Faulty variant: the element at index end is taken too.
JsSlice_Inclusive(s, start, end) ==
    LET a == Min(JsToInteger(start), Len(s))
        b == Min(JsToInteger(end) + 1, Len(s))
    IN  IF a >= b THEN <<>> ELSE SubSeq(s, a + 1, b)

\* Array.prototype.slice(start, end): a copy of s[start..end), clipped.
JsSlice(s, start, end) ==
    LET a == Min(JsToInteger(start), Len(s))
        b == Min(JsToInteger(end), Len(s))
    IN  IF a >= b THEN <<>> ELSE SubSeq(s, a + 1, b)

\* ------------------------------------------------------------------ data

\* The embedded fallback of fetchConfig (names romanised).
FallbackPhilosophers ==
    << "Zhuangzi", "Whitehead", "Yamauchi", "Kant", "Hegel", "Nietzsche",
       "Heidegger", "Wittgenstein", "Aristotle", "Plato", "Kierkegaard",
       "Husserl", "Deleuze", "Levinas", "Nagarjuna", "Shinran", "Dogen" >>

FallbackThemes ==
    << "ontology", "epistemology", "ethics", "language", "time", "freedom",
       "others", "beauty", "death", "practice", "mind", "society",
       "religion", "science", "value", "western", "buddhism", "japanese" >>

\* Faulty variant: the first philosopher missing from the embedded list.
FallbackConfig_Short ==
    [philosophers |-> Tail(FallbackPhilosophers), themes |-> FallbackThemes]

FallbackConfig ==
    [philosophers |-> FallbackPhilosophers, themes |-> FallbackThemes]

\* A server configuration with np philosophers and nt themes.
ConfigOf(np, nt) ==
    [philosophers |-> SubSeq(FallbackPhilosophers, 1, np),
     themes       |-> SubSeq(FallbackThemes, 1, nt)]

\* What GET /api/config does in a run: ok = FALSE is a non-2xx status, a
\* network error or an unparsable body; valid = FALSE is a 2xx JSON body
\* without a philosophers field.
ServerOk(np, nt) == [ok |-> TRUE, valid |-> TRUE, body |-> ConfigOf(np, nt)]

ServerDown == [ok |-> FALSE, valid |-> TRUE, body |-> ConfigOf(0, 0)]

ServerInvalid == [ok |-> TRUE, valid |-> FALSE, body |-> ConfigOf(0, 0)]

\* The labels of the sub-theme cards of renderSubthemes, by data-subtheme-idx.
SubthemeLabels ==
    << "ikikata", "rekishi", "ninshiki", "sekaikan", "kankeisei", "souzou" >>

\* ---------------------------------------------------------- pure functions

\* Faulty variant: the breakpoints compared with <= instead of <.
getWordcloudItemsPerPage_Inclusive(w) ==
    IF w <= 480 THEN 10
    ELSE IF w <= 768 THEN 12
    ELSE 14

\* getWordcloudItemsPerPage, of window.innerWidth.
getWordcloudItemsPerPage(w) ==
    IF w < 480 THEN 10
    ELSE IF w < 768 THEN 12
    ELSE 14

\* getRandomSize, of the value Math.random() returned (in hundredths).
getRandomSize(rand) ==
    IF rand < 40 THEN 2
    ELSE IF rand < 70 THEN 3
    ELSE IF rand < 85 THEN 1
    ELSE IF rand < 95 THEN 4
    ELSE 5

\* getItemWidth.
getItemWidth(size) ==
    LET widths == << 80, 100, 120, 140, 160 >>
    IN  IF size \in 1..5 THEN widths[size] ELSE 120

\* Faulty variant: the padding left out of the collision test.
isCollidingStrict_NoPadding(x, y, width, height, boxes) ==
    \E k \in 1..Len(boxes) :
        LET item == boxes[k]
        IN  ~ ( \/ x + width < item.x
                \/ x > item.x + item.width
                \/ y + height < item.y
                \/ y > item.y + item.height )

\* Faulty variant: a candidate collides even when nothing is placed.
isCollidingStrict_Always(x, y, width, height, boxes) == TRUE

\* isCollidingStrict: some placed box is within the padding of the candidate.
isCollidingStrict(x, y, width, height, boxes) ==
    LET padding == 15
    IN  \E k \in 1..Len(boxes) :
            LET item == boxes[k]
            IN  ~ ( \/ x + width + padding < item.x
                    \/ x > item.x + item.width + padding
                    \/ y + height + padding < item.y
                    \/ y > item.y + item.height + padding )

\* Faulty variant: the two clamps applied in the other order.
Clamp_MinFirst(v, size, extent) == Min(Max(5, v), extent - size - 5)

\* Math.max(5, Math.min(v, extent - size - 5)).
Clamp(v, size, extent) == Max(5, Min(v, extent - size - 5))

\* The philosophers followed by the themes, as renderWordcloud lists them.
CombinedItems(cfg) ==
    [i \in 1..Len(cfg.philosophers) |->
        [name |-> cfg.philosophers[i], type |-> "philosopher"]]
    \o
    [i \in 1..Len(cfg.themes) |->
        [name |-> cfg.themes[i], type |-> "theme"]]

\* The list renderWordcloud stores: the combined list, followed when it is
\* shorter than 5 by its first (5 - length) entries.
PaddedItems(cfg) ==
    LET all == CombinedItems(cfg)
    IN  IF Len(all) < 5
        THEN LET needed == 5 - Len(all)
                 duplicated == JsSlice(all, 0, needed)
             IN  all \o duplicated
        ELSE all

\* ------------------------------------------------------------- randomness

\* The values Math.random() may return in a free run, in hundredths: one
\* per size tier of getRandomSize.
FreeRandom == {10, 50, 80, 90, 99}

\* A run in which Math.random() always returns 0.5.
ConstRandom == {50}

Reverse(s) == [i \in 1..Len(s) |-> s[Len(s) + 1 - i]]

Rotate(s, k) == [i \in 1..Len(s) |-> s[((i - 1 + k) % Len(s)) + 1]]

\* The orders Array.sort(() => Math.random() - 0.5) may leave: with the
\* comparator always 0 (Math.random() = 0.5) the stable sort keeps the order;
\* otherwise any order can result, of which the rotations of the page and of
\* its reverse are followed.
Shuffles(s, rv) ==
    IF rv = ConstRandom \/ Len(s) = 0
    THEN {s}
    ELSE {Rotate(s, k) : k \in 0..(Len(s) - 1)}
         \cup {Rotate(Reverse(s), k) : k \in 0..(Len(s) - 1)}

\* cos/sin(angle + angleOffset) * (radius + radiusOffset), rounded: the
\* offsets of a candidate's centre from the container's centre.  angle and
\* radius accumulate random reals and are not tracked: any of these offsets
\* may be drawn at any attempt.
Offsets == {[dx |-> a, dy |-> b] : a \in {-150, 0, 150}, b \in {-70, 0, 70}}

\* ------------------------------------------------------ episode URLs

\* A string made of "/"-separated pieces is the sequence of its pieces:
\* "xyz789/extra" is << "xyz789", "extra" >>, "abc123" is << "abc123" >>
\* and "" is << >>.  A result of extractYouTubeVideoId is such a string or
\* null.
NoId == [isNull |-> TRUE, id |-> << >>]

SomeId(str) == [isNull |-> FALSE, id |-> str]

\* String.prototype.includes on a host name, at the granularity of labels:
\* the labels of needle occur in s, next to each other and in order.
Includes(s, needle) ==
    \E k \in 0..(Len(s) - Len(needle)) :
        \A j \in 1..Len(needle) : s[k + j] = needle[j]

\* An episode URL as new URL(url) sees it: parsable = FALSE when the
\* constructor throws; hostname as its labels; v the value of the query
\* parameter v (NULL when absent, "" when empty); path the segments of
\* pathname after the leading "/".
Hostnames ==
    { << "www", "youtube", "com" >>, << "youtube", "com" >>,
      << "m", "youtube", "com" >>, << "youtu", "be" >>,
      << "example", "com" >> }

EpisodeUrls ==
    [parsable : BOOLEAN,
     hostname : Hostnames,
     v        : {NULL, "", "abc123"},
     path     : { << >>, << "watch" >>, << "xyz789" >>,
                  << "xyz789", "extra" >> }]

\* extractYouTubeVideoId: searchParams.get("v") || null on a youtube.com
\* host, pathname.substring(1) (all of the path after the leading "/") on
\* a youtu.be host, null otherwise and when new URL throws.
extractYouTubeVideoId(url) ==
    IF ~url.parsable THEN NoId
    ELSE IF Includes(url.hostname, << "youtube", "com" >>)
         THEN IF url.v = NULL \/ url.v = "" THEN NoId ELSE SomeId(<< url.v >>)
    ELSE IF Includes(url.hostname, << "youtu", "be" >>)
         THEN SomeId(url.path)
    ELSE NoId

\* The truthiness of a result: null and "" are falsy.
IdTruthy(r) == ~r.isNull /\ r.id # << >>

\* ------------------------------------------------------------ analytics

\* The analytics sink of a run: gtag is not defined, is defined and returns,
\* or is defined and throws on every call.
GtagModes == {"absent", "present", "throws"}

\* Faulty variant: trackEvent without its try/catch.
trackEvent_NoCatch(g) ==
    [sent |-> g = "present", propagates |-> g = "throws"]

\* trackEvent: gtag is called when it is defined, an exception of the call
\* is caught and ignored.  sent: the event reached the sink; propagates:
\* the call of trackEvent ended in an exception.
trackEvent(g) ==
    LET defined == g # "absent"
        raised  == defined /\ g = "throws"
    IN  [sent |-> defined /\ ~raised, propagates |-> FALSE]

\* ------------------------------------------------------------------ state

VARIABLES
    \* the environment of a run
    innerWidth,                \* window.innerWidth
    clientWidth,               \* #wordcloud clientWidth
    clientHeight,              \* #wordcloud clientHeight
    randomValues,              \* the values Math.random() returns in this run
    serverConfig,              \* what GET /api/config answers in this run
    episodeUrl,                \* the url of the episodes the server returns
    gtag,                      \* the analytics sink, one of GtagModes
    \* module-level state of the script
    WORDCLOUD_ITEMS_PER_PAGE,
    phase,                     \* "loading" | "starting" | "ready" | "failed"
    config,                    \* appState.config: << >> (null) or << cfg >>
    allItems,                  \* wordcloudState.allItems
    currentPageItems,          \* wordcloudState.currentPageItems
    currentPageIndex,          \* wordcloudState.currentPageIndex
    nextClicks,                \* next-page clicks handled since renderWordcloud
    \* the running displayWordcloudPage call
    pc,                        \* "idle" | "render"
    renderIdx,                 \* forEach position in the shuffled page
    curSize,                   \* size of the current item, 0 before it is drawn
    attempts,
    placed,
    wordEls,                   \* the .wordcloud-item elements of #wordcloud
    \* selection state machine
    step,                      \* the .step element shown by showStep
    selectedMain,
    selectedMainType,
    selectedSub,
    timers,                    \* pending setTimeout callbacks of selectMain
    headerMain,                \* textContent of #selected-main-display
    cardSelected,              \* index of the .subtheme-card marked selected, or 0
    \* discovery
    inflight,                  \* payloads of the outstanding POST /api/discover
    loading,                   \* #loading-overlay is displayed
    lastAlert,                 \* the last alert() raised
    resultCards,               \* number of .episode-card in #results-grid
    cardVideoId,               \* videoId of the last episode card rendered
    cardThumbnail,             \* its img src: "none" | "youtube" | "placeholder"
    trackEventThrew            \* a call site of trackEvent caught an exception

envVars == << innerWidth, clientWidth, clientHeight, randomValues, serverConfig,
             episodeUrl, gtag >>

pageVars == << WORDCLOUD_ITEMS_PER_PAGE, phase, config, allItems,
               currentPageItems, currentPageIndex, nextClicks >>

renderVars == << pc, renderIdx, curSize, attempts, placed, wordEls >>

selVars == << step, selectedMain, selectedMainType, selectedSub, timers,
              headerMain, cardSelected >>

netVars == << inflight, loading, lastAlert, resultCards >>

cardVars == << cardVideoId, cardThumbnail >>

vars == << envVars, pageVars, renderVars, selVars, netVars, cardVars,
          trackEventThrew >>

\* Window widths on both sides of the breakpoints 480 and 768.
ViewportWidths == {479, 480, 767, 768}

\* The state once the script has been evaluated, before DOMContentLoaded.
InitScript ==
    /\ WORDCLOUD_ITEMS_PER_PAGE = getWordcloudItemsPerPage(innerWidth)
    /\ phase = "loading"
    /\ config = << >>
    /\ allItems = << >>
    /\ currentPageItems = << >>
    /\ currentPageIndex = 0
    /\ nextClicks = 0
    /\ pc = "idle"
    /\ renderIdx = 1
    /\ curSize = 0
    /\ attempts = 0
    /\ placed = << >>
    /\ wordEls = << >>
    /\ step = 1
    /\ selectedMain = NULL
    /\ selectedMainType = NULL
    /\ selectedSub = NULL
    /\ timers = << >>
    /\ headerMain = NULL
    /\ cardSelected = 0
    /\ inflight = << >>
    /\ loading = FALSE
    /\ lastAlert = "none"
    /\ resultCards = 0
    /\ cardVideoId = NoId
    /\ cardThumbnail = "none"
    /\ trackEventThrew = FALSE

\* A call site of trackEvent, try { trackEvent(...) } catch (e) { warn }:
\* whether a call site has caught an exception of trackEvent so far.
AfterTrackEvent == trackEventThrew \/ trackEvent(gtag).propagates

\* The map callback of renderResults on an episode: its video id and the
\* thumbnail chosen from it.
RenderEpisode ==
    LET videoId == extractYouTubeVideoId(episodeUrl)
    IN  /\ cardVideoId' = videoId
        /\ cardThumbnail' = IF IdTruthy(videoId) THEN "youtube"
                                                ELSE "placeholder"

\* ------------------------------------------------------ word cloud, paging

\* Faulty variant: the page is taken out of the list with splice instead of
\* being copied with slice.
DisplayWordcloudPage_Splice(idx, items) ==
    LET startIdx == JsMul(idx, WORDCLOUD_ITEMS_PER_PAGE)
        endIdx   == JsAdd(startIdx, WORDCLOUD_ITEMS_PER_PAGE)
    IN  /\ currentPageItems' \in Shuffles(JsSlice(items, startIdx, endIdx),
                                          randomValues)
        /\ allItems' = SubSeq(items, 1, Min(JsToInteger(startIdx), Len(items)))
                       \o SubSeq(items, Min(JsToInteger(endIdx), Len(items)) + 1,
                                 Len(items))
        /\ wordEls' = << >>
        /\ placed' = << >>
        /\ renderIdx' = 1
        /\ curSize' = 0
        /\ attempts' = 0
        /\ pc' = "render"

\* displayWordcloudPage up to the placement loop, on wordcloudState.allItems
\* = items: clear the container, slice the page at index idx of items,
\* shuffle the slice.  slice copies and sort works on the copy, so the list
\* itself stays items.
DisplayWordcloudPage(idx, items) ==
    LET startIdx == JsMul(idx, WORDCLOUD_ITEMS_PER_PAGE)
        endIdx   == JsAdd(startIdx, WORDCLOUD_ITEMS_PER_PAGE)
    IN  /\ currentPageItems' \in Shuffles(JsSlice(items, startIdx, endIdx),
                                          randomValues)
        /\ allItems' = items
        /\ wordEls' = << >>
        /\ placed' = << >>
        /\ renderIdx' = 1
        /\ curSize' = 0
        /\ attempts' = 0
        /\ pc' = "render"

\* The DOMContentLoaded handler from the answer of fetchConfig on:
\* renderWordcloud, and after the first page renderSubthemes(null, null) and
\* attachEventListeners (in FinishRender).  A configuration without
\* philosophers throws and the handler's catch ends the initialisation.
DOMContentLoaded ==
    /\ phase = "loading"
    /\ pc = "idle"
    /\ LET cfg == IF serverConfig.ok THEN serverConfig.body ELSE FallbackConfig
       IN  /\ config' = << cfg >>
           /\ IF serverConfig.ok /\ ~serverConfig.valid
              THEN /\ phase' = "failed"
                   /\ UNCHANGED << allItems, currentPageItems, currentPageIndex,
                                   renderVars >>
              ELSE /\ phase' = "starting"
                   /\ currentPageIndex' = 0
                   /\ DisplayWordcloudPage(0, PaddedItems(cfg))
    /\ nextClicks' = 0
    /\ trackEventThrew' = AfterTrackEvent
    /\ UNCHANGED << envVars, cardVars, WORDCLOUD_ITEMS_PER_PAGE, selVars, netVars >>

\* forEach callback, before the do-while: the item's size is drawn.
BeginItem ==
    /\ pc = "render"
    /\ curSize = 0
    /\ renderIdx <= Len(currentPageItems)
    /\ \E rand \in randomValues : curSize' = getRandomSize(rand)
    /\ attempts' = 0
    /\ UNCHANGED << envVars, cardVars, trackEventThrew, pageVars, pc, renderIdx, placed, wordEls,
                    selVars, netVars >>

\* The candidate position of one iteration of the do-while for the jitter
\* off: centre plus offset, clamped into the container.
CandidateX(off) ==
    LET itemWidth      == getItemWidth(curSize)
        containerWidth == clientWidth - 15
        centerX        == containerWidth \div 2
    IN  Clamp(centerX + off.dx - itemWidth \div 2, itemWidth, containerWidth)

CandidateY(off) ==
    LET itemHeight      == 40
        containerHeight == clientHeight - 15
        centerY         == containerHeight \div 2
    IN  Clamp(centerY + off.dy - itemHeight \div 2, itemHeight, containerHeight)

\* One iteration of the do-while with the jitter off and, when it leaves the
\* loop, the rest of the forEach callback.
AttemptAt(off) ==
    /\ pc = "render"
    /\ curSize # 0
    /\ LET item       == currentPageItems[renderIdx]
           itemWidth  == getItemWidth(curSize)
           itemHeight == 40
           x == CandidateX(off)
           y == CandidateY(off)
           n == attempts + 1
       IN  IF isCollidingStrict(x, y, itemWidth, itemHeight, placed) /\ n < 20
           THEN /\ attempts' = n
                /\ UNCHANGED << renderIdx, curSize, placed, wordEls >>
           ELSE /\ IF n < 20
                   THEN /\ placed' = Append(placed,
                               [x |-> x, y |-> y,
                                width |-> itemWidth, height |-> itemHeight])
                        /\ wordEls' = Append(wordEls,
                               [name |-> item.name, type |-> item.type,
                                selected |-> FALSE])
                   ELSE UNCHANGED << placed, wordEls >>
                /\ attempts' = n
                /\ curSize' = 0
                /\ renderIdx' = renderIdx + 1
    /\ UNCHANGED << envVars, cardVars, trackEventThrew, pageVars, pc, selVars, netVars >>

\* An iteration of the do-while: Math.random() picks the jitter.
Attempt ==
    \E off \in Offsets : AttemptAt(off)

\* The end of displayWordcloudPage (the locals are dropped) and what its
\* caller does next: at startup renderSubthemes(null, null) and
\* attachEventListeners.
FinishRender ==
    /\ pc = "render"
    /\ curSize = 0
    /\ renderIdx > Len(currentPageItems)
    /\ pc' = "idle"
    /\ placed' = << >>
    /\ attempts' = 0
    /\ renderIdx' = 1
    /\ IF phase = "starting"
       THEN /\ phase' = "ready"
            /\ headerMain' = NULL
            /\ cardSelected' = 0
       ELSE UNCHANGED << phase, headerMain, cardSelected >>
    /\ trackEventThrew' = IF phase = "starting" THEN trackEventThrew
                                               ELSE AfterTrackEvent
    /\ UNCHANGED << envVars, cardVars, WORDCLOUD_ITEMS_PER_PAGE, config, allItems,
                    currentPageItems, currentPageIndex, nextClicks,
                    curSize, wordEls,
                    step, selectedMain, selectedMainType, selectedSub, timers,
                    netVars >>

\* The click handler of #wordcloud-next-btn (shown with step 1).
NextPageClick ==
    /\ phase = "ready"
    /\ pc = "idle"
    /\ step = 1
    /\ nextClicks < MaxNextClicks
    /\ LET pageCount == JsCeilDiv(Len(allItems), WORDCLOUD_ITEMS_PER_PAGE)
           idx == JsMod(JsAdd(currentPageIndex, 1), pageCount)
       IN  /\ currentPageIndex' = idx
           /\ DisplayWordcloudPage(idx, allItems)
    /\ nextClicks' = nextClicks + 1
    /\ UNCHANGED << envVars, cardVars, trackEventThrew, WORDCLOUD_ITEMS_PER_PAGE, phase, config,
                    selVars, netVars >>

\* The window is resized: the script registers no resize listener.
Resize ==
    /\ pc = "idle"
    /\ \E w \in ViewportWidths : w # innerWidth /\ innerWidth' = w
    /\ UNCHANGED << clientWidth, clientHeight, randomValues, serverConfig,
                    episodeUrl, gtag, cardVars, trackEventThrew,
                    pageVars, renderVars, selVars, netVars >>

NextCloud ==
    \/ DOMContentLoaded
    \/ BeginItem
    \/ Attempt
    \/ FinishRender
    \/ NextPageClick
    \/ Resize

\* Pagination: a container too small for any second item, Math.random()
\* constant, configurations of 0 to 35 items.
PagingServers ==
    {ServerDown}
    \cup {ServerOk(np, 0) : np \in 0..5}
    \cup {ServerOk(6, 5), ServerOk(10, 10)}

\* The episode url of the runs in which the url does not matter.
DefaultUrl ==
    [parsable |-> TRUE, hostname |-> << "www", "youtube", "com" >>,
     v |-> "abc123", path |-> << "watch" >>]

InitPaging ==
    /\ episodeUrl = DefaultUrl
    /\ gtag = "absent"
    /\ innerWidth \in ViewportWidths
    /\ clientWidth = 115
    /\ clientHeight = 75
    /\ randomValues = ConstRandom
    /\ serverConfig \in PagingServers
    /\ InitScript

SpecPaging == InitPaging /\ [][NextCloud]_vars

\* Placement: free random draws, containers smaller and larger than an item.
LayoutContainers ==
    { [w |-> 95, h |-> 235], [w |-> 315, h |-> 55], [w |-> 315, h |-> 235] }

\* Two items of any size in every container, or four items of one size in
\* the largest container.
InitLayout ==
    /\ episodeUrl = DefaultUrl
    /\ gtag = "absent"
    /\ innerWidth = 479
    /\ \/ /\ \E c \in LayoutContainers :
                clientWidth = c.w /\ clientHeight = c.h
          /\ randomValues = FreeRandom
          /\ serverConfig = ServerOk(1, 0)
       \/ /\ clientWidth = 315
          /\ clientHeight = 235
          /\ randomValues = {10}
          /\ serverConfig = ServerOk(1, 1)
    /\ InitScript

NextLayout ==
    \/ DOMContentLoaded
    \/ BeginItem
    \/ Attempt
    \/ FinishRender

SpecLayout == InitLayout /\ [][NextLayout]_vars

\* ------------------------------------------------ selection state machine

\* Faulty variant: the marker is added to the matching items and never
\* removed from the others (classList.add in place of toggle).
SelectMain_KeepsMarkers ==
    /\ pc = "idle"
    /\ step = 1
    /\ Len(timers) < MaxTimers
    /\ \E k \in 1..Len(wordEls) :
        LET name == wordEls[k].name
            type == wordEls[k].type
        IN  /\ selectedMain' = name
            /\ selectedMainType' = type
            /\ wordEls' = [j \in 1..Len(wordEls) |->
                    [wordEls[j] EXCEPT !.selected =
                        (wordEls[j].selected \/ wordEls[j].name = name)]]
            /\ timers' = Append(timers, [name |-> name, type |-> type])
    /\ trackEventThrew' = AfterTrackEvent
    /\ UNCHANGED << envVars, cardVars, pageVars, pc, renderIdx, curSize, attempts, placed,
                    step, selectedSub, headerMain, cardSelected, netVars >>

\* The click handler of a .wordcloud-item (shown with step 1): selectMain.
\* The step-2 transition is left to a 300 ms timer.
SelectMain ==
    /\ pc = "idle"
    /\ step = 1
    /\ Len(timers) < MaxTimers
    /\ \E k \in 1..Len(wordEls) :
        LET name == wordEls[k].name
            type == wordEls[k].type
        IN  /\ selectedMain' = name
            /\ selectedMainType' = type
            /\ wordEls' = [j \in 1..Len(wordEls) |->
                    [wordEls[j] EXCEPT !.selected = (wordEls[j].name = name)]]
            /\ timers' = Append(timers, [name |-> name, type |-> type])
    /\ trackEventThrew' = AfterTrackEvent
    /\ UNCHANGED << envVars, cardVars, pageVars, pc, renderIdx, curSize, attempts, placed,
                    step, selectedSub, headerMain, cardSelected, netVars >>

\* The setTimeout callback of selectMain: renderSubthemes(name, type), which
\* rebuilds the cards, and showStep(2).  Equal delays fire in order.
TimerFires ==
    /\ pc = "idle"
    /\ timers # << >>
    /\ headerMain' = Head(timers).name
    /\ cardSelected' = 0
    /\ step' = 2
    /\ timers' = Tail(timers)
    /\ UNCHANGED << envVars, cardVars, trackEventThrew, pageVars, renderVars,
                    selectedMain, selectedMainType, selectedSub, netVars >>

\* The click handler of a .subtheme-card (shown with step 2): selectSubtheme.
SelectSubtheme ==
    /\ pc = "idle"
    /\ phase = "ready"
    /\ step = 2
    /\ \E idx \in 1..Min(MaxSubthemeIdx, Len(SubthemeLabels)) :
        /\ selectedSub' = SubthemeLabels[idx]
        /\ cardSelected' = idx
    /\ trackEventThrew' = AfterTrackEvent
    /\ UNCHANGED << envVars, cardVars, pageVars, renderVars, step, selectedMain,
                    selectedMainType, timers, headerMain, netVars >>

\* resetSelection: no element carries the class tag-item, so the markers of
\* the .wordcloud-item elements are not touched.
ResetSelection ==
    /\ selectedMain' = NULL
    /\ selectedMainType' = NULL
    /\ selectedSub' = NULL
    /\ cardSelected' = 0

\* The click handler of #back-btn (shown with step 2).
BackClick ==
    /\ pc = "idle"
    /\ phase = "ready"
    /\ step = 2
    /\ ResetSelection
    /\ step' = 1
    /\ trackEventThrew' = AfterTrackEvent
    /\ UNCHANGED << envVars, cardVars, pageVars, renderVars, timers, headerMain, netVars >>

\* The click handler of #back-to-step1-btn (shown with step 3).
BackToStep1Click ==
    /\ pc = "idle"
    /\ phase = "ready"
    /\ step = 3
    /\ ResetSelection
    /\ step' = 1
    /\ trackEventThrew' = AfterTrackEvent
    /\ UNCHANGED << envVars, cardVars, pageVars, renderVars, timers, headerMain, netVars >>

\* -------------------------------------------------------------- discovery

\* Faulty variant: the two lists filled the wrong way round.
Payload_Swapped(main, mainType, sub) ==
    [philosophers |-> IF mainType = "theme" THEN << main >> ELSE << >>,
     themes       |-> IF mainType = "philosopher" THEN << main >> ELSE << >>,
     search_query |-> IF sub = NULL THEN "" ELSE sub,
     top_k        |-> 5]

\* The request body discover() builds from the handler's arguments.
Payload(main, mainType, sub) ==
    [philosophers |-> IF mainType = "philosopher" THEN << main >> ELSE << >>,
     themes       |-> IF mainType = "theme" THEN << main >> ELSE << >>,
     search_query |-> IF sub = NULL THEN "" ELSE sub,
     top_k        |-> 5]

\* The click handler of #search-btn (shown with step 2) up to the await of
\* fetch inside discover(): nothing in it looks at the loading overlay.
SearchClick ==
    /\ pc = "idle"
    /\ phase = "ready"
    /\ step = 2
    /\ selectedMain = NULL \/ Len(inflight) < MaxRequests
    /\ IF selectedMain = NULL
       THEN /\ lastAlert' = "select_first"
            /\ UNCHANGED << inflight, loading >>
       ELSE /\ loading' = TRUE
            /\ inflight' = Append(inflight,
                    Payload(selectedMain, selectedMainType, selectedSub))
            /\ UNCHANGED lastAlert
    /\ trackEventThrew' = IF selectedMain = NULL THEN trackEventThrew
                                                ELSE AfterTrackEvent
    /\ UNCHANGED << envVars, cardVars, pageVars, renderVars, selVars, resultCards >>

\* How a POST /api/discover can end: a 2xx body with count results, a 2xx
\* body without a results list, a non-2xx status with or without a JSON
\* body, a rejected fetch.
Outcomes ==
    {[kind |-> "ok", count |-> n] : n \in 0..MaxResults}
    \cup {[kind |-> k, count |-> 0] :
            k \in {"ok_no_results", "http_error", "http_error_unparsable",
                   "network_error"}}

\* Faulty variant: the catch returns an empty list instead of null.
DiscoverReturn_EmptyOnError(o) ==
    IF o.kind = "ok"
    THEN [isNull |-> FALSE, count |-> o.count]
    ELSE [isNull |-> FALSE, count |-> 0]

\* What discover() returns: data.results, or null from its catch.
DiscoverReturn(o) ==
    IF o.kind = "ok"
    THEN [isNull |-> FALSE, count |-> o.count]
    ELSE [isNull |-> TRUE, count |-> 0]

\* Faulty variant: an empty list taken as falsy.
Truthy_NonEmpty(r) == ~r.isNull /\ r.count > 0

\* if (results): null is falsy, every array is truthy.
Truthy(r) == ~r.isNull

Remove(s, i) == [j \in 1..(Len(s) - 1) |-> IF j < i THEN s[j] ELSE s[j + 1]]

\* Request i settles with outcome o: the rest of discover() (catch: alert;
\* finally: showLoading(false)) and of the search handler (renderResults,
\* showStep(3)).
DiscoverSettles(i, o) ==
    /\ pc = "idle"
    /\ i \in 1..Len(inflight)
    /\ LET results == DiscoverReturn(o)
       IN  /\ lastAlert' = IF results.isNull THEN "search_failed" ELSE lastAlert
           /\ IF Truthy(results)
              THEN /\ resultCards' = results.count
                   /\ IF results.count > 0
                      THEN RenderEpisode
                      ELSE cardVideoId' = NoId /\ cardThumbnail' = "none"
                   /\ step' = 3
              ELSE UNCHANGED << resultCards, cardVars, step >>
    /\ loading' = FALSE
    /\ inflight' = Remove(inflight, i)
    /\ trackEventThrew' = IF o.kind = "ok" THEN AfterTrackEvent
                                           ELSE trackEventThrew
    /\ UNCHANGED << envVars, pageVars, renderVars, selectedMain,
                    selectedMainType, selectedSub, timers, headerMain,
                    cardSelected >>

DiscoverResponse == \E i \in 1..Len(inflight) : \E o \in Outcomes : DiscoverSettles(i, o)

\* ------------------------------------------------------- episode cards

\* renderResults' map callback applied to an episode of the response.
RenderCard ==
    /\ cardThumbnail = "none"
    /\ RenderEpisode
    /\ UNCHANGED << envVars, pageVars, renderVars, selVars, netVars,
                    trackEventThrew >>

NextCards == RenderCard

\* Runs over the episode urls a response can carry.
InitCards ==
    /\ episodeUrl \in EpisodeUrls
    /\ gtag = "absent"
    /\ innerWidth = 768
    /\ clientWidth = 315
    /\ clientHeight = 60
    /\ randomValues = ConstRandom
    /\ serverConfig = ServerOk(1, 1)
    /\ InitScript

SpecCards == InitCards /\ [][NextCards]_vars

\* ------------------------------------------- selection and discovery runs

\* The events of a run in which the user neither pages nor resizes.

Next ==
    \/ DOMContentLoaded
    \/ BeginItem
    \/ Attempt
    \/ FinishRender
    \/ SelectMain
    \/ TimerFires
    \/ SelectSubtheme
    \/ SearchClick
    \/ DiscoverResponse
    \/ BackClick
    \/ BackToStep1Click

\* One philosopher and one theme, a container with room for two items side
\* by side, Math.random() constant.
Init ==
    /\ episodeUrl = DefaultUrl
    /\ gtag = "absent"
    /\ innerWidth = 768
    /\ clientWidth = 315
    /\ clientHeight = 60
    /\ randomValues = ConstRandom
    /\ serverConfig = ServerOk(1, 1)
    /\ InitScript

Spec == Init /\ [][Next]_vars

\* The same events on a word cloud of a single name.
InitSearch ==
    /\ episodeUrl = DefaultUrl
    /\ gtag = "absent"
    /\ innerWidth = 768
    /\ clientWidth = 315
    /\ clientHeight = 60
    /\ randomValues = ConstRandom
    /\ serverConfig = ServerOk(1, 0)
    /\ InitScript

SpecSearch == InitSearch /\ [][Next]_vars

\* The same events under each analytics sink.
InitAnalytics ==
    /\ episodeUrl = DefaultUrl
    /\ gtag \in GtagModes
    /\ innerWidth = 768
    /\ clientWidth = 315
    /\ clientHeight = 60
    /\ randomValues = ConstRandom
    /\ serverConfig = ServerOk(1, 0)
    /\ InitScript

SpecAnalytics == InitAnalytics /\ [][Next]_vars

\* ============================================================ properties

\* ---- placement (SpecLayout)

containerWidth == clientWidth - 15

containerHeight == clientHeight - 15

\* The box b grown by pad on all four sides.
Grow(b, pad) ==
    [x |-> b.x - pad, y |-> b.y - pad,
     width |-> b.width + 2 * pad, height |-> b.height + 2 * pad]

\* Two closed boxes share a point.
BoxesIntersect(a, b) ==
    /\ a.x <= b.x + b.width
    /\ b.x <= a.x + a.width
    /\ a.y <= b.y + b.height
    /\ b.y <= a.y + a.height

\* C1: on a page, the box of a placement grown by the 15 px padding does not
\* intersect the box of any other placement of that page.
C1_NoPaddedOverlap ==
    \A i, j \in 1..Len(placed) :
        i # j => ~BoxesIntersect(Grow(placed[i], 15), placed[j])

\* Three items placed on one page.
C1_Witness == Len(placed) >= 3

\* C2 as stated: every placement lies within [5, W-5] x [5, H-5], whatever
\* the bounds W x H.
C2_InBounds ==
    \A k \in 1..Len(placed) :
        /\ 5 <= placed[k].x
        /\ placed[k].x + placed[k].width <= containerWidth - 5
        /\ 5 <= placed[k].y
        /\ placed[k].y + placed[k].height <= containerHeight - 5

\* C2, amended: the left and top edges are never below 5; the right (bottom)
\* edge is within W-5 (H-5) when the bounds leave room for the item, that is
\* W >= width + 10 (H >= height + 10), and otherwise the item sits at 5.
C2_InBoundsWhenRoom ==
    \A k \in 1..Len(placed) :
        LET b == placed[k]
        IN  /\ 5 <= b.x
            /\ 5 <= b.y
            /\ IF containerWidth >= b.width + 10
               THEN b.x + b.width <= containerWidth - 5
               ELSE b.x = 5
            /\ IF containerHeight >= b.height + 10
               THEN b.y + b.height <= containerHeight - 5
               ELSE b.y = 5

\* An item placed in bounds narrower than the item plus 10.
C2_Witness ==
    /\ Len(placed) >= 1
    /\ containerWidth < placed[1].width + 10

\* ---- pagination (SpecPaging)

\* ceil(len(allItems) / pageSize).
PageCount ==
    IF Len(allItems) % WORDCLOUD_ITEMS_PER_PAGE = 0
    THEN Len(allItems) \div WORDCLOUD_ITEMS_PER_PAGE
    ELSE Len(allItems) \div WORDCLOUD_ITEMS_PER_PAGE + 1

\* C3 as stated, for a combined list of n = 1..4 entries: after
\* renderWordcloud allItems has exactly 5 entries, the combined list repeated
\* cyclically from the front.
C3_PaddedToFive ==
    phase \in {"starting", "ready"} =>
        LET all == CombinedItems(config[1])
            n   == Len(all)
        IN  n \in 1..4 =>
                /\ Len(allItems) = 5
                /\ \A i \in 1..5 : allItems[i] = all[((i - 1) % n) + 1]

\* C4: after k next-page clicks from index 0 the index is k while
\* k < pageCount (so within [0, pageCount)) and 0 when k = pageCount.
C4_NextPageCycles ==
    phase = "ready" =>
        /\ nextClicks < PageCount => currentPageIndex = nextClicks
        /\ nextClicks = PageCount => currentPageIndex = 0

\* A cycle of three or more pages completed.
C4_Witness ==
    /\ phase = "ready"
    /\ pc = "idle"
    /\ PageCount >= 3
    /\ nextClicks = PageCount
    /\ currentPageIndex = 0

\* C5 as stated: with allItems empty the index stays the integer 0 and the
\* page stays empty, however often the next-page button is clicked.
C5_EmptyStaysZero ==
    (phase = "ready" /\ allItems = << >>) =>
        /\ currentPageIndex = 0
        /\ currentPageItems = << >>

\* Widths at which the page size is compared with that of window.innerWidth.
ProbeWidths == {0, 320, 479, 480, 481, 600, 767, 768, 769, 1024, 1920}

C7_PageSizeFollowsViewport ==
    WORDCLOUD_ITEMS_PER_PAGE = getWordcloudItemsPerPage(innerWidth)

\* ---- selection and discovery (Spec)

\* C8: a discovery request that fails (non-2xx status, rejected fetch,
\* unparsable body) leaves the visible step and the selection as they were;
\* in particular step 2 stays step 2 and step 3 is not entered.
C8_FailedSearchKeepsState ==
    [][ \A i \in 1..Len(inflight) : \A o \in Outcomes :
            (o.kind # "ok" /\ DiscoverSettles(i, o)) =>
                /\ step' = step
                /\ selectedMain' = selectedMain
                /\ selectedMainType' = selectedMainType
                /\ selectedSub' = selectedSub ]_vars

\* A search has failed on step 2 with a selection made.
C8_Witness ==
    /\ lastAlert = "search_failed"
    /\ step = 2
    /\ selectedMain # NULL
    /\ selectedSub # NULL
    /\ inflight = << >>

\* C9: every successful response, an empty results list included, shows
\* step 3 with one card per result.
C9_SuccessShowsResults ==
    [][ \A i \in 1..Len(inflight) : \A o \in Outcomes :
            (o.kind = "ok" /\ DiscoverSettles(i, o)) =>
                /\ step' = 3
                /\ resultCards' = o.count ]_vars

\* Step 3 shown with no card: only a response with results [] leads here.
C9_Witness ==
    /\ step = 3
    /\ resultCards = 0

\* C10 as stated, its first half: the visible step never goes from step 3
\* to step 2.
C10_NeverStep3ToStep2 == [][ ~(step = 3 /\ step' = 2) ]_vars

\* C11 as stated: after back from step 2 or step 3 the visible step is
\* step 1, the selection is null and neither a word-cloud item nor a
\* sub-theme card carries the selected marker.
C11_BackClearsEverything ==
    [][ (BackClick \/ BackToStep1Click) =>
            /\ step' = 1
            /\ selectedMain' = NULL
            /\ selectedMainType' = NULL
            /\ selectedSub' = NULL
            /\ cardSelected' = 0
            /\ \A k \in 1..Len(wordEls') : ~wordEls'[k].selected ]_vars

C15_RequestShape ==
    [][ SearchClick =>
            IF selectedMain = NULL
            THEN inflight' = inflight
            ELSE inflight' = Append(inflight,
                    [philosophers |->
                        IF selectedMainType = "philosopher"
                        THEN << selectedMain >> ELSE << >>,
                     themes |->
                        IF selectedMainType = "theme"
                        THEN << selectedMain >> ELSE << >>,
                     search_query |->
                        IF selectedSub = NULL THEN "" ELSE selectedSub,
                     top_k |-> 5]) ]_vars

\* A philosopher and a sub-theme selected, the request outstanding.
C15_Witness ==
    \E i \in 1..Len(inflight) :
        inflight[i] = [philosophers |-> << "Zhuangzi" >>, themes |-> << >>,
                       search_query |-> "ikikata", top_k |-> 5]

\* C13 as stated: in every state the loading flag is set exactly when a
\* discovery request is outstanding.
C13_LoadingIffOutstanding ==
    loading <=> (inflight # << >>)

\* C14 as stated: at most one discovery request is outstanding at any time
\* (a search trigger arriving while the loading flag is set issues none).
C14_SingleOutstandingRequest ==
    Len(inflight) <= 1

\* C16: when GET /api/config fails, the configuration is the embedded
\* fallback of exactly 17 philosophers and 18 themes, the startup goes on
\* (it never ends in the handler's catch) to the rendered word cloud and the
\* attached listeners, and no alert is shown.
C16_FallbackOnConfigFailure ==
    (~serverConfig.ok /\ phase # "loading") =>
        /\ config = << [philosophers |-> FallbackPhilosophers,
                        themes |-> FallbackThemes] >>
        /\ Len(config[1].philosophers) = 17
        /\ Len(config[1].themes) = 18
        /\ Len(allItems) = 35
        /\ phase \in {"starting", "ready"}
        /\ (phase = "ready" /\ pc = "idle") => wordEls # << >>
        /\ lastAlert = "none"

\* The request failed and the startup is complete: first page rendered,
\* listeners attached.
C16_Witness ==
    /\ ~serverConfig.ok
    /\ phase = "ready"
    /\ pc = "idle"
    /\ nextClicks = 0
    /\ wordEls # << >>

\* C19: once renderWordcloud has built allItems, no step (page render,
\* shuffle, next-page click) changes it: same length, elements and order.
C19_AllItemsImmutable ==
    [][ phase # "loading" => allItems' = allItems ]_vars

\* The fallback list after the second next-page click: the third page shown.
C19_Witness ==
    /\ phase = "ready"
    /\ pc = "idle"
    /\ nextClicks = 2
    /\ currentPageIndex = 2
    /\ Len(allItems) = 35
    /\ allItems = PaddedItems(config[1])

\* C20 as stated: an item is dropped only when its candidates all collide
\* with a placed padded box; whenever the forEach callback ends without
\* emitting the item, the candidate it tried last collides (an item with a
\* collision-free candidate, the 20th included, is placed).
C20_DroppedOnlyWhenAllCollide ==
    [][ \A off \in Offsets :
            (AttemptAt(off) /\ renderIdx' = renderIdx + 1 /\ placed' = placed)
            => isCollidingStrict(CandidateX(off), CandidateY(off),
                                 getItemWidth(curSize), 40, placed) ]_vars

\* C17 as stated: the video id is the v parameter (none when absent) on a
\* youtube.com host, the first path segment only on a youtu.be host, none
\* for any other host and for an unparsable url.  Where the claim leaves the
\* value open (an empty v, an empty path) null and "" are both accepted.
C17_VideoIdAsSpecified ==
    cardThumbnail # "none" =>
        LET url == episodeUrl
        IN  IF ~url.parsable THEN cardVideoId = NoId
            ELSE IF Includes(url.hostname, << "youtube", "com" >>)
                 THEN IF url.v \in {NULL, ""}
                      THEN ~IdTruthy(cardVideoId)
                      ELSE cardVideoId = SomeId(<< url.v >>)
            ELSE IF Includes(url.hostname, << "youtu", "be" >>)
                 THEN IF url.path = << >>
                      THEN ~IdTruthy(cardVideoId)
                      ELSE cardVideoId = SomeId(<< url.path[1] >>)
            ELSE cardVideoId = NoId

C21_PlacementLoopBounded ==
    /\ attempts <= 20
    /\ curSize # 0 => attempts < 20
    /\ Len(wordEls) <= Len(currentPageItems)
    /\ pc = "render" =>
        /\ Len(placed) = Len(wordEls)
        /\ Len(placed) <= renderIdx - 1
        /\ renderIdx <= Len(currentPageItems) + 1
        /\ renderIdx > 1 => Len(placed) >= 1
    /\ (phase = "ready" /\ pc = "idle" /\ currentPageItems # << >>) =>
        Len(wordEls) >= 1

\* A page rendered to its end on which one item was placed and a later one
\* was dropped after its 20th attempt.
C21_Witness ==
    /\ phase = "ready"
    /\ pc = "idle"
    /\ attempts = 0
    /\ Len(currentPageItems) >= 2
    /\ Len(wordEls) >= 1
    /\ Len(wordEls) < Len(currentPageItems)

\* The number of positions of s holding e.
Occurrences(s, e) == Cardinality({k \in 1..Len(s) : s[k] = e})

\* s and t hold the same elements the same number of times.
SameItems(s, t) ==
    /\ Len(s) = Len(t)
    /\ \A k \in 1..Len(s) : Occurrences(s, s[k]) = Occurrences(t, s[k])

\* C22: the page shown is (up to the shuffle) the slice
\* [currentPageIndex * pageSize, (currentPageIndex + 1) * pageSize) of
\* allItems clipped to its length; the pages 0..PageCount - 1 visited by
\* one cycle of next-page clicks hold every index of allItems exactly once,
\* every page but the last is full, and no page of a non-empty list is
\* empty.
C22_PageIsSlice ==
    phase \in {"starting", "ready"} =>
        LET ps == WORDCLOUD_ITEMS_PER_PAGE
            n  == Len(allItems)
            lo == currentPageIndex * ps
            hi == IF lo + ps < n THEN lo + ps ELSE n
        IN  IF n = 0
            THEN currentPageItems = << >>
            ELSE /\ currentPageIndex \in 0..(PageCount - 1)
                 /\ nextClicks < PageCount => currentPageIndex = nextClicks
                 /\ SameItems(currentPageItems, SubSeq(allItems, lo + 1, hi))
                 /\ currentPageItems # << >>
                 /\ currentPageIndex < PageCount - 1 =>
                        Len(currentPageItems) = ps
                 /\ \A idx \in 1..n :
                        Cardinality({k \in 0..(PageCount - 1) :
                            /\ k * ps < idx
                            /\ idx <= k * ps + ps}) = 1

\* The last page of a list of three pages, shorter than a full page.
C22_Witness ==
    /\ phase = "ready"
    /\ pc = "idle"
    /\ PageCount = 3
    /\ currentPageIndex = 2
    /\ nextClicks = 2
    /\ Len(currentPageItems) \in 1..(WORDCLOUD_ITEMS_PER_PAGE - 1)

\* C23 as stated: whenever step 2 or step 3 is shown, selectedMain is not
\* null and the step 2 header shows selectedMain, under every interleaving
\* of word-cloud clicks, back clicks and the timers of selectMain.
C23_HeaderMatchesSelection ==
    step \in {2, 3} =>
        /\ selectedMain # NULL
        /\ headerMain = selectedMain

====
